---- MODULE Spec2Model ----
(***************************************************************************)
(* Catalog scan / caption generation / dead-letter queue pipeline of the   *)
(* alt-text application: the scan action (test-products route), the       *)
(* caption generator (gemini.server), the settings store, the analytics   *)
(* records and the retry queue (retry.server).                             *)
(*                                                                         *)
(* Text is modelled as sequences: an alt text or caption is a sequence of  *)
(* one-character strings, an error message is a sequence of words.         *)
(***************************************************************************)
EXTENDS Integers, Sequences, FiniteSets, TLC

VARIABLES
    now,            \* wall clock, in milliseconds
    appSettings,    \* AppSettings table: shop -> row (exists = FALSE: no row)
    scanHistory,    \* ScanHistory table: sequence of rows, id = index
    processedImage, \* ProcessedImage table: sequence of rows in creation order
    failedJob,      \* FailedJob table: id -> row, for the ids that exist
    nextJobId,      \* next fresh FailedJob id
    shopCatalog,    \* the platform's product list of the shop
    catalogFetches, \* number of product-list requests made to the platform
    writeBacks,     \* productUpdateMedia mutations issued, in order
    inv,            \* per scan invocation: the locals of the scan action
    consumer,       \* per queue consumer: due list and scheduleRetry's read
    call            \* a library function called on its own: input and result

vars == <<now, appSettings, scanHistory, processedImage, failedJob, nextJobId,
          shopCatalog, catalogFetches, writeBacks, inv, consumer, call>>

(***************************************************************************)
(* Bounds of the model.                                                    *)
(***************************************************************************)
NegRetries == 1        \* settings maxRetries range down to -NegRetries
MaxRetriesCap == 2     \* settings maxRetries range up to MaxRetriesCap
MaxJobs == 1           \* FailedJob rows ever created in the queue model
MaxTicks == 2          \* clock ticks in the queue model
MaxRetryCount == 4     \* scheduleRetry is not called on a retryCount above this
SmallProducts == 1     \* products in the generated small catalogs

\* no library function is being called on its own
NoCall == [fn |-> "none"]

Shops == {"shop1"}
Consumers == {"c1", "c2"}   \* the queue's consumers (external schedulers)

(***************************************************************************)
(* Text helpers.                                                           *)
(***************************************************************************)
\* String.prototype.trim over a sequence of characters
IsSpace(c) == c \in {" ", "\t"}

RECURSIVE TrimLeft(_)
TrimLeft(s) ==
    IF s # <<>> /\ IsSpace(Head(s)) THEN TrimLeft(Tail(s)) ELSE s

RECURSIVE TrimRight(_)
TrimRight(s) ==
    IF s # <<>> /\ IsSpace(s[Len(s)]) THEN TrimRight(SubSeq(s, 1, Len(s) - 1)) ELSE s

Trim(s) == TrimRight(TrimLeft(s))

\* the words whose upper/mixed case forms occur in the modelled messages
Lower(w) ==
    CASE w \in {"Rate", "RATE"} -> "rate"
      [] w \in {"Limit", "LIMIT"} -> "limit"
      [] w \in {"Timeout", "TIMEOUT"} -> "timeout"
      [] w \in {"Network", "NETWORK"} -> "network"
      [] w = "ECONNRESET" -> "econnreset"
      [] w = "ETIMEDOUT" -> "etimedout"
      [] OTHER -> w

LowerAll(msg) == [i \in 1..Len(msg) |-> Lower(msg[i])]

\* RegExp.test for a pattern that is a run of words
Matches(msg, pat) ==
    \E i \in 1..(Len(msg) - Len(pat) + 1) : SubSeq(msg, i, i + Len(pat) - 1) = pat

MatchesNoCase(msg, pat) == Matches(LowerAll(msg), pat)

(***************************************************************************)
(* retry.server: classifier and queue operations.                          *)
(***************************************************************************)
\* error?.message || String(error), for an Error object
ErrorText(error) == IF error.message # <<>> THEN error.message ELSE <<"Error">>

\* a classifier that ignores case in every pattern
isRetryableErrorAnyCase(error) ==
    LET errorMessage == LowerAll(ErrorText(error)) IN
       \/ Matches(errorMessage, <<"rate", "limit">>)
       \/ Matches(errorMessage, <<"429">>)
       \/ Matches(errorMessage, <<"timeout">>)
       \/ Matches(errorMessage, <<"econnreset">>)
       \/ Matches(errorMessage, <<"etimedout">>)
       \/ Matches(errorMessage, <<"network">>)

isRetryableError(error) ==
    LET errorMessage == ErrorText(error) IN
       \/ MatchesNoCase(errorMessage, <<"rate", "limit">>)
       \/ Matches(errorMessage, <<"429">>)
       \/ MatchesNoCase(errorMessage, <<"timeout">>)
       \/ Matches(errorMessage, <<"ECONNRESET">>)
       \/ Matches(errorMessage, <<"ETIMEDOUT">>)
       \/ MatchesNoCase(errorMessage, <<"network">>)

EnqueueDelayMs == 60000
DefaultRetryDelayMs == 120000
DefaultMaxRetries == 3

\* data.maxRetries || 3 : an absent or zero value becomes 3
MaxRetriesOrDefault(arg) ==
    IF arg.supplied /\ arg.value # 0 THEN arg.value ELSE DefaultMaxRetries

\* the row addFailedJob creates
NewFailedJob(id, data, t) ==
    [ id |-> id,
      shop |-> data.shop,
      imageId |-> data.imageId,
      errorMessage |-> data.errorMessage,
      maxRetries |-> MaxRetriesOrDefault(data.maxRetries),
      nextRetryAt |-> t + EnqueueDelayMs,
      retryCount |-> 0,
      status |-> "pending",
      createdAt |-> t,
      lastAttemptAt |-> t ]

addFailedJob(jobs, id, data, t) == jobs @@ (id :> NewFailedJob(id, data, t))

\* a filter that does not look at the status
DueIdsAnyStatus(jobs, shop, t) ==
    { j \in DOMAIN jobs :
        /\ jobs[j].shop = shop
        /\ jobs[j].nextRetryAt <= t }

\* the ids getPendingRetries returns, as a set (the where clause, lines 33-39)
DueIds(jobs, shop, t) ==
    { j \in DOMAIN jobs :
        /\ jobs[j].shop = shop
        /\ jobs[j].status = "pending"
        /\ jobs[j].nextRetryAt <= t }

\* the ways to list the elements of S, each once
Orderings(S) ==
    { f \in [1..Cardinality(S) -> S] :
        \A a, b \in 1..Cardinality(S) : a # b => f[a] # f[b] }

\* the lists getPendingRetries can return: the due ids by ascending createdAt
\* (line 40), rows of equal createdAt in the order the store gives them
getPendingRetries(jobs, shop, t) ==
    { f \in Orderings(DueIds(jobs, shop, t)) :
        \A a, b \in DOMAIN f :
            a < b => jobs[f[a]].createdAt <= jobs[f[b]].createdAt }

\* markRetrying's update of an existing row
markRetrying(job, t) ==
    [job EXCEPT !.status = "retrying", !.lastAttemptAt = t]

\* a lookup that answers a missing row with no error
scheduleRetryFindSilent(jobs, id) ==
    [ error |-> "none",
      read |-> IF id \in DOMAIN jobs THEN <<jobs[id]>> ELSE <<>> ]

\* scheduleRetry, lines 61-65: findUnique, and the throw for a missing row
scheduleRetryFind(jobs, id) ==
    IF id \in DOMAIN jobs
    THEN [error |-> "none", read |-> <<jobs[id]>>]
    ELSE [error |-> "Job not found", read |-> <<>>]

\* scheduleRetry's test for the permanent failure
ReachedCeiling(newRetryCount, maxRetries) == newRetryCount >= maxRetries

\* scheduleRetry's update, computed from the row it read (read) and applied to
\* the row as it is stored at the time of the update (job)
scheduleRetryUpdate(job, read, delayMs, t) ==
    LET newRetryCount == read.retryCount + 1 IN
    IF ReachedCeiling(newRetryCount, read.maxRetries)
    THEN [job EXCEPT !.retryCount = newRetryCount,
                     !.status = "failed_permanent",
                     !.lastAttemptAt = t]
    ELSE [job EXCEPT !.retryCount = newRetryCount,
                     !.nextRetryAt = t + delayMs,
                     !.status = "pending",
                     !.lastAttemptAt = t]

removeFailedJob(jobs, id) == [j \in DOMAIN jobs \ {id} |-> jobs[j]]

(***************************************************************************)
(* settings.server.                                                        *)
(***************************************************************************)
NoSettingsRow ==
    [exists |-> FALSE, altTextLength |-> "medium", autoRetry |-> TRUE,
     maxRetries |-> DefaultMaxRetries]

DEFAULT_SETTINGS ==
    [exists |-> TRUE, altTextLength |-> "medium", autoRetry |-> TRUE,
     maxRetries |-> DefaultMaxRetries]

\* the AppSettings table after getSettings(shop): the row is created on first read
getSettingsTable(tbl, shop) ==
    IF tbl[shop].exists THEN tbl ELSE [tbl EXCEPT ![shop] = DEFAULT_SETTINGS]

\* the value getSettings(shop) returns
getSettings(tbl, shop) == getSettingsTable(tbl, shop)[shop]

\* updateSettings(shop, settings): upsert
updateSettings(tbl, shop, settings) ==
    [tbl EXCEPT ![shop] = [exists |-> TRUE,
                           altTextLength |-> settings.altTextLength,
                           autoRetry |-> settings.autoRetry,
                           maxRetries |-> settings.maxRetries]]

getMaxLength(length) ==
    CASE length = "short" -> 60
      [] length = "medium" -> 100
      [] length = "long" -> 125
      [] OTHER -> 100

\* the maxRetries values the settings form can store: parseInt of the field
SettingsMaxRetries == (0 - NegRetries)..MaxRetriesCap

(***************************************************************************)
(* Errors. An error carries an optional HTTP status and a message.         *)
(***************************************************************************)
NullError == [null |-> TRUE, status |-> 0, message |-> <<>>]
Err(status, message) == [null |-> FALSE, status |-> status, message |-> message]

\* provider failures: an explicit 429, a rate-limit message without a status,
\* and a content error
ProviderErrors ==
    { Err(429, <<"Too", "Many", "Requests">>),
      Err(0, <<"Rate", "limit", "reached">>),
      Err(0, <<"invalid", "image">>) }

\* fetch(imageUrl) failures
FetchErrors == { Err(0, <<"network", "error">>) }

\* persistent-store failures: one whose message the classifier accepts, one not
DbTimeout == Err(0, <<"Operations", "timed", "out", "(pool", "timeout", "10)">>)

DbErrors == { DbTimeout, Err(0, <<"Unique", "constraint", "failed">>) }

\* platform (admin.graphql) failures
PlatformErrors == { Err(0, <<"ECONNRESET">>) }

DbOk == [ok |-> TRUE, error |-> NullError]
DbOutcomes == {DbOk} \cup { [ok |-> FALSE, error |-> e] : e \in DbErrors }

(***************************************************************************)
(* gemini.server: generateAltText.                                         *)
(***************************************************************************)
IsQuote(c) == c \in {"'", "\""}

\* alt.replace(/^['"]+|['"]+$/g, "")
RECURSIVE StripLeadingQuotes(_)
StripLeadingQuotes(s) ==
    IF s # <<>> /\ IsQuote(Head(s)) THEN StripLeadingQuotes(Tail(s)) ELSE s

RECURSIVE StripTrailingQuotes(_)
StripTrailingQuotes(s) ==
    IF s # <<>> /\ IsQuote(s[Len(s)])
    THEN StripTrailingQuotes(SubSeq(s, 1, Len(s) - 1)) ELSE s

\* a stripping that removes one quote character from each side
StripQuotesOneLayer(s) ==
    LET l == IF s # <<>> /\ IsQuote(Head(s)) THEN Tail(s) ELSE s
    IN IF l # <<>> /\ IsQuote(l[Len(l)]) THEN SubSeq(l, 1, Len(l) - 1) ELSE l

StripQuotes(s) == StripTrailingQuotes(StripLeadingQuotes(s))

\* a normalization that drops white space instead of collapsing it
CollapseSpacesDropping(s) == SelectSeq(s, LAMBDA c : ~IsSpace(c))

\* alt.replace(/\s+/g, ' '): every maximal run of white space becomes one
\* space; computed by halves, a run that spans the cut is joined
RECURSIVE CollapseSpaces(_)
CollapseSpaces(s) ==
    IF Len(s) = 0 THEN <<>>
    ELSE IF Len(s) = 1 THEN (IF IsSpace(s[1]) THEN <<" ">> ELSE s)
    ELSE LET h == Len(s) \div 2
             l == CollapseSpaces(SubSeq(s, 1, h))
             r == CollapseSpaces(SubSeq(s, h + 1, Len(s)))
         IN IF l[Len(l)] = " " /\ r[1] = " " THEN l \o Tail(r) ELSE l \o r

Ellipsis == <<".", ".", ".">>

\* a sanitation that does not trim the slice before the ellipsis
SanitizeUntrimmedSlice(raw, maxLength) ==
    LET a3 == Trim(CollapseSpaces(StripQuotes(Trim(raw))))
    IN IF Len(a3) > maxLength
       THEN SubSeq(a3, 1, maxLength - 3) \o Ellipsis
       ELSE a3

\* lines 53-61: the sanitation of the provider's text
Sanitize(raw, maxLength) ==
    LET a1 == Trim(raw)
        a2 == StripQuotes(a1)
        a3 == Trim(CollapseSpaces(a2))
    IN IF Len(a3) > maxLength
       THEN Trim(SubSeq(a3, 1, maxLength - 3)) \o Ellipsis
       ELSE a3

\* the provider's raw texts of the model: one that sanitizes to the empty
\* caption and one that does not
ProviderTexts == { <<" ", "\"", "\"">>, <<"\"", "a", " ", " ", "b", "\"">> }

\* the loop condition of the retry loop
LoopContinuesInclusive(attempt, maxRetries) == attempt <= maxRetries

LoopContinues(attempt, maxRetries) == attempt < maxRetries

\* line 69: the rate-limit test of the catch block
IsRateLimit(error) ==
    error.status = 429 \/ MatchesNoCase(error.message, <<"rate", "limit">>)

\* a backoff without the ceiling
calculateBackoffDelayUnclamped(retryCount) == 2000 * (2 ^ retryCount)

\* retry.server: Math.min(baseDelay * Math.pow(2, retryCount), maxDelay), in ms
calculateBackoffDelay(retryCount) ==
    LET d == 2000 * (2 ^ retryCount) IN IF d < 300000 THEN d ELSE 300000

\* a wait after every failed attempt, the last one included
WaitAfterEveryFailure(error, attempt, maxRetries) ==
    IF IsRateLimit(error) THEN calculateBackoffDelay(attempt)
    ELSE 1000 * (attempt + 1)

\* lines 72-85: the wait before the next attempt (0: no wait), in ms
WaitAfter(error, attempt, maxRetries) ==
    IF attempt < maxRetries - 1
    THEN IF IsRateLimit(error) THEN calculateBackoffDelay(attempt)
         ELSE 1000 * (attempt + 1)
    ELSE 0

\* lines 89-95: the error thrown when the loop ends without a return
ExhaustedError(lastError) ==
    IF ~lastError.null /\ lastError.status = 429
    THEN Err(0, <<"Rate", "limit", "exceeded", "-", "retry", "later">>)
    ELSE Err(0, <<"Failed", "to", "generate", "alt-text:">>
                  \o (IF ~lastError.null /\ lastError.message # <<>>
                      THEN lastError.message ELSE <<"Unknown", "error">>))

NoResult == [kind |-> "none", text |-> <<>>, error |-> NullError, origin |-> "none"]
Returned(text) ==
    [kind |-> "returned", text |-> text, error |-> NullError, origin |-> "attempt"]
Thrown(error, origin) ==
    [kind |-> "thrown", text |-> <<>>, error |-> error, origin |-> origin]

\* the locals of one generateAltText call, with counters of what it did
NewGen(maxRetries) ==
    [ maxRetries |-> maxRetries,
      maxLength |-> 0,
      attempt |-> 0,
      lastError |-> NullError,
      attemptsMade |-> 0,
      failures |-> 0,
      providerCalls |-> 0,
      waits |-> <<>>,
      result |-> NoResult ]

\* what one attempt of the loop can meet
AttemptOutcomes ==
    { [kind |-> "text", text |-> t, error |-> NullError, provider |-> TRUE] :
        t \in ProviderTexts }
    \cup { [kind |-> "error", text |-> <<>>, error |-> e, provider |-> TRUE] :
        e \in ProviderErrors }
    \cup { [kind |-> "error", text |-> <<>>, error |-> e, provider |-> FALSE] :
        e \in FetchErrors }

\* what the set-up before the loop can meet (lines 12-24)
SetupOutcomes ==
    { [kind |-> "ok", error |-> NullError] }
    \cup { [kind |-> "noApiKey",
            error |-> Err(0, <<"GEMINI_API_KEY", "is", "not", "set">>)] }
    \cup { [kind |-> "settingsFail", error |-> e] : e \in DbErrors }

\* lines 12-26
GenStart(s) ==
    /\ inv[s].pc = "gen_start"
    /\ \E o \in SetupOutcomes :
         IF o.kind = "ok"
         THEN /\ appSettings' = getSettingsTable(appSettings, inv[s].shop)
              /\ inv' = [inv EXCEPT
                    ![s].pc = "gen_loop",
                    ![s].gen.maxLength =
                        getMaxLength(getSettings(appSettings, inv[s].shop).altTextLength)]
         ELSE /\ appSettings' = appSettings
              /\ inv' = [inv EXCEPT ![s].pc = "gen_done",
                                    ![s].gen.result = Thrown(o.error, "setup")]
    /\ UNCHANGED <<now, scanHistory, processedImage, failedJob, nextJobId,
                   shopCatalog, catalogFetches, writeBacks, consumer, call>>

\* lines 29-87: one iteration of the retry loop
GenAttempt(s) ==
    /\ inv[s].pc = "gen_loop"
    /\ LoopContinues(inv[s].gen.attempt, inv[s].gen.maxRetries)
    /\ \E o \in AttemptOutcomes :
         LET g == inv[s].gen
             g1 == [g EXCEPT !.attemptsMade = @ + 1,
                             !.providerCalls = @ + (IF o.provider THEN 1 ELSE 0)]
         IN IF o.kind = "text"
            THEN inv' = [inv EXCEPT
                    ![s].pc = "gen_done",
                    ![s].gen = [g1 EXCEPT
                        !.result = Returned(Sanitize(o.text, g.maxLength))]]
            ELSE LET w == WaitAfter(o.error, g.attempt, g.maxRetries) IN
                 inv' = [inv EXCEPT
                    ![s].gen = [g1 EXCEPT
                        !.lastError = o.error,
                        !.failures = @ + 1,
                        !.waits = IF w > 0 THEN Append(@, w) ELSE @,
                        !.attempt = @ + 1]]
    /\ UNCHANGED <<now, appSettings, scanHistory, processedImage, failedJob,
                   nextJobId, shopCatalog, catalogFetches, writeBacks, consumer,
                   call>>

\* lines 89-95: the loop ended without a return
GenExhausted(s) ==
    /\ inv[s].pc = "gen_loop"
    /\ ~LoopContinues(inv[s].gen.attempt, inv[s].gen.maxRetries)
    /\ inv' = [inv EXCEPT
          ![s].pc = "gen_done",
          ![s].gen.result = Thrown(ExhaustedError(inv[s].gen.lastError), "exhausted")]
    /\ UNCHANGED <<now, appSettings, scanHistory, processedImage, failedJob,
                   nextJobId, shopCatalog, catalogFetches, writeBacks, consumer,
                   call>>

(***************************************************************************)
(* The catalog platform.                                                   *)
(***************************************************************************)
PageSize == 250

\* one media edge of a product, by kind
MkMedia(pid, k, kind) ==
    [ id |-> <<pid, k>>,
      hasImage |-> kind # "noimage",
      altNull |-> kind \in {"null", "noimage"},
      alt |-> CASE kind = "blank" -> <<" ">>
                [] kind = "existing" -> <<"e", "x", "i", "s", "t", "i", "n", "g">>
                [] OTHER -> <<>> ]

MkProduct(pid, kinds) ==
    [ id |-> pid, media |-> [k \in 1..Len(kinds) |-> MkMedia(pid, k, kinds[k])] ]

MkCatalog(shapes) == [p \in 1..Len(shapes) |-> MkProduct(p, shapes[p])]

ProductShapes ==
    { <<"empty">>, <<"existing">>, <<"noimage", "blank">> }

\* two products: A with one image of empty alt text, B with one of alt "existing"
ExampleCatalog == MkCatalog(<< <<"empty">>, <<"existing">> >>)

\* a catalog of more than one page: only its last product has an image
BigCatalog ==
    MkCatalog([p \in 1..(PageSize + 1) |->
                  IF p = PageSize + 1 THEN <<"null">> ELSE <<>>])

Catalogs ==
    { MkCatalog(sh) :
        sh \in UNION { [1..n -> ProductShapes] : n \in 0..SmallProducts } }
    \cup {ExampleCatalog, BigCatalog}

\* the page of products a request with first = n and after = cursor returns;
\* a cursor is the number of products before the page
Page(catalog, n, cursor) ==
    LET last == IF cursor + n < Len(catalog) THEN cursor + n ELSE Len(catalog)
    IN [ products |-> SubSeq(catalog, cursor + 1, last),
         hasNextPage |-> last < Len(catalog),
         endCursor |-> last ]

\* pagination.server: fetchAllProducts, from a cursor on
RECURSIVE fetchAllFrom(_, _, _)
fetchAllFrom(catalog, pageSize, cursor) ==
    LET result == Page(catalog, pageSize, cursor) IN
    IF result.hasNextPage
    THEN result.products \o fetchAllFrom(catalog, pageSize, result.endCursor)
    ELSE result.products

fetchAllProducts(catalog, pageSize) == fetchAllFrom(catalog, pageSize, 0)

\* the scan action's own product query: products(first: 250), no cursor
ScanFetch(catalog) == Page(catalog, PageSize, 0).products

(***************************************************************************)
(* analytics.server: scan and image records.                               *)
(***************************************************************************)
\* the row createScanHistory creates
createScanHistory(id, shop, forceAll, t) ==
    [ id |-> id, shop |-> shop, forceAll |-> forceAll, status |-> "running",
      startedAt |-> t, completedAtSet |-> FALSE, completedAt |-> 0,
      totalProducts |-> 0, totalImages |-> 0, imagesProcessed |-> 0,
      imagesSkipped |-> 0, imagesFailed |-> 0 ]

\* the status completeScanHistory derives
CompletionStatusInverted(imagesFailed) ==
    IF imagesFailed > 0 THEN "completed" ELSE "completed_with_errors"

CompletionStatus(imagesFailed) ==
    IF imagesFailed > 0 THEN "completed_with_errors" ELSE "completed"

\* a final update that leaves the completion time unset
completeScanHistoryNoTime(row, stats, t) ==
    [row EXCEPT !.totalProducts = stats.totalProducts,
                !.totalImages = stats.totalImages,
                !.imagesProcessed = stats.imagesProcessed,
                !.imagesSkipped = stats.imagesSkipped,
                !.imagesFailed = stats.imagesFailed,
                !.status = CompletionStatus(stats.imagesFailed)]

\* completeScanHistory: the update of the Scan row at scan end
completeScanHistory(row, stats, t) ==
    [row EXCEPT !.totalProducts = stats.totalProducts,
                !.totalImages = stats.totalImages,
                !.imagesProcessed = stats.imagesProcessed,
                !.imagesSkipped = stats.imagesSkipped,
                !.imagesFailed = stats.imagesFailed,
                !.completedAtSet = TRUE,
                !.completedAt = t,
                !.status = CompletionStatus(stats.imagesFailed)]

(***************************************************************************)
(* The scan action (test-products route).                                  *)
(***************************************************************************)
ScanInvocations == {1}

\* the places <<product index, media index>> of the media that carry an image
\* (line 157: the filter on m.node.image)
ImagePlaces(products) ==
    { pk \in UNION { {<<p, k>> : k \in 1..Len(products[p].media)} :
                        p \in 1..Len(products) } :
        products[pk[1]].media[pk[2]].hasImage }

Before(a, b) == a[1] < b[1] \/ (a[1] = b[1] /\ a[2] < b[2])

\* the images in the order the two nested loops visit them (lines 156, 163)
Images(products) ==
    LET P == ImagePlaces(products) IN
    [ i \in 1..Cardinality(P) |->
        LET pk == CHOOSE x \in P : Cardinality({y \in P : Before(y, x)}) = i - 1
        IN products[pk[1]].media[pk[2]] ]

\* line 169: the image is left alone
ShouldSkipIgnoringBlank(forceAll, img) ==
    ~forceAll /\ ~img.altNull /\ img.alt # <<>>

ShouldSkip(forceAll, img) ==
    ~forceAll /\ ~img.altNull /\ img.alt # <<>> /\ Trim(img.alt) # <<>>

OffInv ==
    [ pc |-> "off", shop |-> "shop1", forceAll |-> FALSE,
      settings |-> NoSettingsRow, scanId |-> 0, products |-> <<>>,
      cursor |-> 1, totalImages |-> 0, missingAltText |-> 0,
      updatedCount |-> 0, errorCount |-> 0, abortCause |-> "none",
      generated |-> <<>>, threw |-> <<>>, gen |-> NewGen(0) ]

StartOutcomes == {"ok", "getSettingsFails", "createFails", "fetchFails"}

Underway == {"loop", "gen_start", "gen_loop", "gen_done"}

\* a start that waits until no other invocation is under way
MayStartExclusive(s) ==
    \A t \in DOMAIN inv \ {s} : inv[t].pc \notin Underway

\* lines 112-117: the action looks for no running scan of the shop before it
\* creates its Scan record
MayStart(s) == TRUE

\* lines 112-154: settings, the Scan record, the product query
StartScan(s) ==
    /\ inv[s].pc = "off"
    /\ MayStart(s)
    /\ \E shop \in Shops, forceAll \in BOOLEAN, o \in StartOutcomes :
         LET settings == getSettings(appSettings, shop)
             id == Len(scanHistory) + 1
             created == o \in {"ok", "fetchFails"}
         IN /\ appSettings' = IF o = "getSettingsFails" THEN appSettings
                              ELSE getSettingsTable(appSettings, shop)
            /\ scanHistory' = IF created
                              THEN Append(scanHistory,
                                          createScanHistory(id, shop, forceAll, now))
                              ELSE scanHistory
            /\ catalogFetches' = IF created THEN catalogFetches + 1 ELSE catalogFetches
            /\ inv' = [inv EXCEPT ![s] =
                 [OffInv EXCEPT
                    !.shop = shop,
                    !.forceAll = forceAll,
                    !.settings = IF o = "getSettingsFails" THEN NoSettingsRow ELSE settings,
                    !.scanId = IF created THEN id ELSE 0,
                    !.products = IF o = "ok" THEN ScanFetch(shopCatalog) ELSE <<>>,
                    !.pc = IF o = "ok" THEN "loop" ELSE "aborted",
                    !.abortCause =
                        CASE o = "ok" -> "none"
                          [] o = "getSettingsFails" -> "getSettings"
                          [] o = "createFails" -> "createScanHistory"
                          [] o = "fetchFails" -> "catalogFetch"]]
    /\ UNCHANGED <<now, processedImage, failedJob, nextJobId, shopCatalog,
                   writeBacks, consumer, call>>

\* lines 163-176: the next image of the snapshot is counted, then skipped or
\* handed to generateAltText
BeginImage(s) ==
    /\ inv[s].pc = "loop"
    /\ inv[s].cursor <= Len(Images(inv[s].products))
    /\ LET l == inv[s]
           img == Images(l.products)[l.cursor]
       IN inv' = [inv EXCEPT ![s] =
            IF ShouldSkip(l.forceAll, img)
            THEN [l EXCEPT !.totalImages = @ + 1, !.cursor = @ + 1,
                           !.threw = <<>>]
            ELSE [l EXCEPT !.totalImages = @ + 1,
                           !.missingAltText = @ + 1,
                           !.threw = <<>>,
                           !.generated = Append(@, img.id),
                           !.gen = NewGen(l.settings.maxRetries),
                           !.pc = "gen_start"]]
    /\ UNCHANGED <<now, appSettings, scanHistory, processedImage, failedJob,
                   nextJobId, shopCatalog, catalogFetches, writeBacks, consumer,
                   call>>

\* the tables and locals one loop iteration works on
World(s) ==
    [ l |-> inv[s], pi |-> processedImage, fj |-> failedJob, nj |-> nextJobId,
      wb |-> writeBacks ]

\* the iteration ends; the locals of the generateAltText call are gone
NextImage(w) ==
    [w EXCEPT !.l.cursor = @ + 1, !.l.pc = "loop", !.l.gen = NewGen(0)]

\* an error that leaves the action
Propagate(w, cause) ==
    [w EXCEPT !.l.pc = "aborted", !.l.abortCause = cause, !.l.gen = NewGen(0)]

\* a record write that files the row under the shop's latest Scan record
recordImageProcessingLatestScan(w, img, newAltText, status, errorMessage) ==
    [w EXCEPT !.pi = Append(@,
        [ scanId |-> Len(scanHistory), imageId |-> img.id,
          oldAltNull |-> img.altNull, oldAltText |-> img.alt,
          newAltText |-> newAltText, status |-> status,
          errorMessage |-> errorMessage ])]

\* recordImageProcessing
recordImageProcessing(w, img, newAltText, status, errorMessage) ==
    [w EXCEPT !.pi = Append(@,
        [ scanId |-> w.l.scanId, imageId |-> img.id,
          oldAltNull |-> img.altNull, oldAltText |-> img.alt,
          newAltText |-> newAltText, status |-> status,
          errorMessage |-> errorMessage ])]

\* the argument of the scan's addFailedJob calls (lines 193-201, 268-276)
ScanJobData(shop, settings, imageId, errorMessage) ==
    [ shop |-> shop, imageId |-> imageId, errorMessage |-> errorMessage,
      maxRetries |-> [supplied |-> TRUE, value |-> settings.maxRetries] ]

\* the scan's addFailedJob call
Enqueue(w, img, errorMessage, t) ==
    [w EXCEPT
        !.fj = addFailedJob(@, w.nj,
                  ScanJobData(w.l.shop, w.l.settings, img.id, errorMessage), t),
        !.nj = @ + 1]

\* lines 253-278: the catch block; r and a are the outcomes of its two writes
\* (threw keeps the errors thrown while the image was processed, in order)
CatchBlock(w, img, error, r, a, t) ==
    LET w1 == [w EXCEPT !.l.errorCount = @ + 1, !.l.threw = Append(@, error)] IN
    IF ~r.ok
    THEN Propagate([w1 EXCEPT !.l.threw = Append(@, r.error)],
                   "recordImageProcessing")
    ELSE LET w2 == recordImageProcessing(w1, img, <<>>, "failed", error.message) IN
         IF w.l.settings.autoRetry /\ isRetryableError(error)
         THEN IF ~a.ok
              THEN Propagate([w2 EXCEPT !.l.threw = Append(@, a.error)],
                             "addFailedJob")
              ELSE NextImage(Enqueue(w2, img, error.message, t))
         ELSE NextImage(w2)

NoAltTextGenerated == <<"No", "alt-text", "generated">>

\* an enqueue test that asks the classifier about the branch's message
EnqueuesOnEmptyClassified(settings) ==
    settings.autoRetry /\ isRetryableError(Err(0, NoAltTextGenerated))

\* line 192: the enqueue test of the empty-caption branch
EnqueuesOnEmpty(settings) == settings.autoRetry

\* lines 178-204: the generator returned a falsy caption
EmptyBranch(w, img, r1, a1, r, a, t) ==
    LET w1 == [w EXCEPT !.l.errorCount = @ + 1] IN
    IF ~r1.ok THEN CatchBlock(w1, img, r1.error, r, a, t)
    ELSE LET w2 == recordImageProcessing(w1, img, <<>>, "failed", NoAltTextGenerated) IN
         IF EnqueuesOnEmpty(w.l.settings)
         THEN IF ~a1.ok THEN CatchBlock(w2, img, a1.error, r, a, t)
              ELSE NextImage(Enqueue(w2, img, NoAltTextGenerated, t))
         ELSE NextImage(w2)

MutationOutcomes ==
    { [kind |-> "ok", error |-> NullError],
      [kind |-> "userErrors", error |-> NullError] }
    \cup { [kind |-> "throws", error |-> e] : e \in PlatformErrors }

\* a rejection branch that also writes a failed record
UserErrorsBranchRecording(w, img) ==
    NextImage(recordImageProcessing([w EXCEPT !.l.errorCount = @ + 1], img, <<>>,
                                    "failed", <<"userErrors">>))

\* lines 235-236: the mutation answered with userErrors
UserErrorsBranch(w, img) == NextImage([w EXCEPT !.l.errorCount = @ + 1])

\* lines 206-251: the write-back of a caption
CaptionBranch(w, img, caption, mut, r1, r, a, t) ==
    IF mut.kind = "throws" THEN CatchBlock(w, img, mut.error, r, a, t)
    ELSE LET w1 == [w EXCEPT !.wb = Append(@,
                       [ scanId |-> w.l.scanId, imageId |-> img.id,
                         alt |-> caption, accepted |-> mut.kind = "ok" ])]
         IN IF mut.kind = "userErrors"
            THEN UserErrorsBranch(w1, img)
            ELSE LET w2 == [w1 EXCEPT !.l.updatedCount = @ + 1] IN
                 IF ~r1.ok THEN CatchBlock(w2, img, r1.error, r, a, t)
                 ELSE NextImage(recordImageProcessing(w2, img, caption, "success", <<>>))

\* the platform's catalog after the mutations wbs: an accepted
\* productUpdateMedia sets the alt text of its media item (lines 206-233)
RECURSIVE ApplyWriteBacks(_, _)
ApplyWriteBacks(catalog, wbs) ==
    IF wbs = <<>> THEN catalog
    ELSE LET wb == Head(wbs)
             updated ==
                 [ p \in DOMAIN catalog |->
                     [ catalog[p] EXCEPT !.media =
                         [ k \in DOMAIN catalog[p].media |->
                             IF catalog[p].media[k].id = wb.imageId
                             THEN [ catalog[p].media[k] EXCEPT
                                      !.alt = wb.alt, !.altNull = FALSE ]
                             ELSE catalog[p].media[k] ] ] ]
         IN ApplyWriteBacks(IF wb.accepted THEN updated ELSE catalog, Tail(wbs))

\* the effect of one finished iteration on the tables, the platform's
\* catalog and the locals
Commit(s, w) ==
    /\ inv' = [inv EXCEPT ![s] = w.l]
    /\ processedImage' = w.pi
    /\ failedJob' = w.fj
    /\ nextJobId' = w.nj
    /\ writeBacks' = w.wb
    /\ shopCatalog' =
           ApplyWriteBacks(shopCatalog,
                           SubSeq(w.wb, Len(writeBacks) + 1, Len(w.wb)))
    /\ UNCHANGED <<now, appSettings, scanHistory, catalogFetches, consumer, call>>

CurrentImage(s) == Images(inv[s].products)[inv[s].cursor]

\* generateAltText threw: lines 253-278
HandleThrown(s) ==
    /\ inv[s].pc = "gen_done"
    /\ inv[s].gen.result.kind = "thrown"
    /\ \E r \in DbOutcomes, a \in DbOutcomes :
         Commit(s, CatchBlock(World(s), CurrentImage(s), inv[s].gen.result.error,
                              r, a, now))

\* generateAltText returned a falsy caption: lines 178-204, then 253-278
HandleEmpty(s) ==
    /\ inv[s].pc = "gen_done"
    /\ inv[s].gen.result.kind = "returned"
    /\ inv[s].gen.result.text = <<>>
    /\ \E r1 \in DbOutcomes, a1 \in DbOutcomes, r \in DbOutcomes, a \in DbOutcomes :
         Commit(s, EmptyBranch(World(s), CurrentImage(s), r1, a1, r, a, now))

\* generateAltText returned a caption: lines 206-251, then 253-278
HandleCaption(s) ==
    /\ inv[s].pc = "gen_done"
    /\ inv[s].gen.result.kind = "returned"
    /\ inv[s].gen.result.text # <<>>
    /\ \E mut \in MutationOutcomes, r1 \in DbOutcomes, r \in DbOutcomes,
          a \in DbOutcomes :
         Commit(s, CaptionBranch(World(s), CurrentImage(s), inv[s].gen.result.text,
                                 mut, r1, r, a, now))

\* lines 282-290: the final update of the Scan record
CompleteScan(s) ==
    /\ inv[s].pc = "loop"
    /\ inv[s].cursor > Len(Images(inv[s].products))
    /\ \E o \in DbOutcomes :
         LET l == inv[s]
             stats == [ totalProducts |-> Len(l.products),
                        totalImages |-> l.totalImages,
                        imagesProcessed |-> l.updatedCount,
                        imagesSkipped |-> l.totalImages - l.missingAltText,
                        imagesFailed |-> l.errorCount ]
         IN IF o.ok
            THEN /\ scanHistory' = [scanHistory EXCEPT
                        ![l.scanId] = completeScanHistory(@, stats, now)]
                 /\ inv' = [inv EXCEPT ![s].pc = "done"]
            ELSE /\ scanHistory' = scanHistory
                 /\ inv' = [inv EXCEPT ![s].pc = "aborted",
                                       ![s].abortCause = "completeScanHistory"]
    /\ UNCHANGED <<now, appSettings, processedImage, failedJob, nextJobId,
                   shopCatalog, catalogFetches, writeBacks, consumer, call>>

\* the host ends the call while the scan is under way: the action has no
\* cancellation handler, so nothing more is written and its locals are gone
HostTerminates(s) ==
    /\ inv[s].pc \in {"loop", "gen_start", "gen_loop", "gen_done"}
    /\ inv' = [inv EXCEPT ![s] = [OffInv EXCEPT !.pc = "terminated",
                                                !.shop = inv[s].shop,
                                                !.scanId = inv[s].scanId]]
    /\ UNCHANGED <<now, appSettings, scanHistory, processedImage, failedJob,
                   nextJobId, shopCatalog, catalogFetches, writeBacks, consumer,
                   call>>

\* the settings rows a shop can have when a scan starts
SettingsRows ==
    {NoSettingsRow}
    \cup { [exists |-> TRUE, altTextLength |-> "medium", autoRetry |-> ar,
            maxRetries |-> mr] : ar \in BOOLEAN, mr \in SettingsMaxRetries }

IdleConsumer == [due |-> {}, read |-> <<>>, thrown |-> "none"]

InitScan ==
    /\ now = 0
    /\ appSettings \in [Shops -> SettingsRows]
    /\ scanHistory = <<>>
    /\ processedImage = <<>>
    /\ failedJob = <<>>
    /\ nextJobId = 1
    /\ shopCatalog \in Catalogs
    /\ catalogFetches = 0
    /\ writeBacks = <<>>
    /\ inv = [s \in ScanInvocations |-> OffInv]
    /\ consumer = [c \in Consumers |-> IdleConsumer]
    /\ call = NoCall

NextScan ==
    \E s \in ScanInvocations :
        \/ StartScan(s)
        \/ BeginImage(s)
        \/ GenStart(s)
        \/ GenAttempt(s)
        \/ GenExhausted(s)
        \/ HandleThrown(s)
        \/ HandleEmpty(s)
        \/ HandleCaption(s)
        \/ CompleteScan(s)
        \/ HostTerminates(s)

SpecScan == InitScan /\ [][NextScan]_vars

(***************************************************************************)
(* Properties of the scan.                                                 *)
(***************************************************************************)
Terminal == {"completed", "completed_with_errors"}

ImageLevelCauses == {"recordImageProcessing", "addFailedJob"}

\* the ProcessedImage rows of a scan for an image
RowsFor(scanId, imageId) ==
    { i \in 1..Len(processedImage) :
        processedImage[i].scanId = scanId /\ processedImage[i].imageId = imageId }

WriteBacksFor(scanId, imageId) ==
    { i \in 1..Len(writeBacks) :
        writeBacks[i].scanId = scanId /\ writeBacks[i].imageId = imageId }

InSeq(x, seq) == \E i \in 1..Len(seq) : seq[i] = x

\* the image has alt text: not null and some character that is not white space
HasAltText(img) == ~img.altNull /\ \E i \in 1..Len(img.alt) : ~IsSpace(img.alt[i])

\* the images a scan leaves alone, and those it must attempt
LeftAlone(forceAll, img) == HasAltText(img) /\ ~forceAll

\* how many images of its snapshot an invocation has counted so far
Visited(s) ==
    IF \/ inv[s].pc \in {"gen_start", "gen_loop", "gen_done"}
       \/ (inv[s].pc = "aborted" /\ inv[s].abortCause \in ImageLevelCauses)
    THEN inv[s].cursor
    ELSE inv[s].cursor - 1

\* C1: no image-level failure aborts a scan: an error thrown while an image is
\* processed (caption generator, write-back, ProcessedImage write, FailedJob
\* enqueue) never leaves the scan action; the action goes on to the remaining
\* images and to the final update of its Scan record.
C1_NoImageFailureAborts ==
    \A s \in ScanInvocations :
        inv[s].pc = "aborted" => inv[s].abortCause \notin ImageLevelCauses

\* C2: for every completed scan, imagesSkipped + imagesProcessed + imagesFailed
\* <= totalImages, and imagesSkipped = totalImages - (number of images lacking
\* alt text, or of all images when forceAll is set).
C2_AggregateBound ==
    \A s \in ScanInvocations :
        inv[s].pc = "done" =>
            LET row == scanHistory[inv[s].scanId]
                imgs == Images(inv[s].products)
                missing == Cardinality({ i \in 1..Len(imgs) :
                                           ~LeftAlone(inv[s].forceAll, imgs[i]) })
            IN /\ row.status \in Terminal
               /\ row.imagesSkipped + row.imagesProcessed + row.imagesFailed
                      <= row.totalImages
               /\ row.imagesSkipped = row.totalImages - missing

\* C3: a completed scan has status completed_with_errors if and only if its
\* imagesFailed count is greater than 0; otherwise its status is completed.
C3_StatusDerivation ==
    \A i \in 1..Len(scanHistory) :
        scanHistory[i].status # "running" =>
            /\ scanHistory[i].status \in Terminal
            /\ scanHistory[i].status = "completed_with_errors"
                   <=> scanHistory[i].imagesFailed > 0

C3_Witness ==
    \E i \in 1..Len(scanHistory) :
        /\ scanHistory[i].status = "completed_with_errors"
        /\ scanHistory[i].imagesFailed > 0
        /\ scanHistory[i].imagesProcessed > 0

\* C4: at the end of a scan every attempted image (every image not skipped) has
\* exactly one ProcessedImage record of the scan and every skipped image has
\* none, so the scan's records number as many as its attempted images.
C4_OneRecordPerAttempt ==
    \A s \in ScanInvocations :
        inv[s].pc = "done" =>
            LET imgs == Images(inv[s].products) IN
            \A i \in 1..Len(imgs) :
                Cardinality(RowsFor(inv[s].scanId, imgs[i].id)) =
                    IF InSeq(imgs[i].id, inv[s].generated) THEN 1 ELSE 0

\* C5: every media item with an image is counted in totalImages; an image with
\* non-white-space alt text is skipped when forceAll is false (no generator
\* call, no write-back, no ProcessedImage record); every other image is counted
\* as missing and attempted. On the two-product example (A: empty alt text,
\* B: alt text "existing", forceAll = false) the scan ends with totalImages = 2,
\* missingAltText = 1, imagesSkipped = 1, no record for B's image and, when the
\* attempt succeeded, one success record for A's image.
C5_SkipOrAttempt ==
    \A s \in ScanInvocations :
        LET l == inv[s]
            imgs == Images(l.products)
            seen == 1..Visited(s)
        IN /\ l.totalImages = Visited(s)
           /\ l.missingAltText =
                  Cardinality({ i \in seen : ~LeftAlone(l.forceAll, imgs[i]) })
           /\ \A i \in seen :
                IF LeftAlone(l.forceAll, imgs[i])
                THEN /\ ~InSeq(imgs[i].id, l.generated)
                     /\ WriteBacksFor(l.scanId, imgs[i].id) = {}
                     /\ RowsFor(l.scanId, imgs[i].id) = {}
                ELSE InSeq(imgs[i].id, l.generated)
           /\ (l.pc = "done" /\ l.products = ExampleCatalog /\ ~l.forceAll) =>
                LET row == scanHistory[l.scanId] IN
                /\ row.totalImages = 2
                /\ l.missingAltText = 1
                /\ row.imagesSkipped = 1
                /\ RowsFor(l.scanId, <<2, 1>>) = {}
                /\ (row.imagesProcessed = 1 /\ row.imagesFailed = 0) =>
                     /\ Cardinality(RowsFor(l.scanId, <<1, 1>>)) = 1
                     /\ \A i \in RowsFor(l.scanId, <<1, 1>>) :
                            processedImage[i].status = "success"

\* the example scan has ended with A's image updated and B's image skipped
C5_Witness ==
    \E s \in ScanInvocations :
        /\ inv[s].pc = "done"
        /\ inv[s].products = ExampleCatalog
        /\ ~inv[s].forceAll
        /\ scanHistory[inv[s].scanId].imagesProcessed = 1
        /\ scanHistory[inv[s].scanId].imagesFailed = 0
        /\ scanHistory[inv[s].scanId].imagesSkipped = 1

\* C6: the scan works on the full catalog, fetched once through the paginator's
\* full fetch: every product of a catalog of more than one page is visited, and
\* the product list is requested once per scan.
C6_FullCatalogVisited ==
    \A s \in ScanInvocations :
        inv[s].pc = "done" =>
            /\ LET all == fetchAllProducts(shopCatalog, PageSize) IN
               [p \in DOMAIN inv[s].products |-> inv[s].products[p].id]
                   = [p \in DOMAIN all |-> all[p].id]
            /\ inv[s].totalImages = Len(Images(shopCatalog))
            /\ scanHistory[inv[s].scanId].totalProducts = Len(shopCatalog)

\* the Scan row has a completion time exactly when its status is final
CompletionTimeIffFinal ==
    \A i \in DOMAIN scanHistory :
        scanHistory[i].completedAtSet <=> scanHistory[i].status \in Terminal

\* the Scan row of a call that has not reached its end, or was ended by an
\* exception or by the host, is running and has no completion time
RunningUntilEnd ==
    \A s \in ScanInvocations :
        (inv[s].pc # "done" /\ inv[s].scanId \in DOMAIN scanHistory) =>
            /\ scanHistory[inv[s].scanId].status = "running"
            /\ ~scanHistory[inv[s].scanId].completedAtSet

\* C20: a Scan record has a completion time if and only if its status is
\* completed or completed_with_errors; it is created running without a
\* completion time, is changed only once, by the step that ends the scan, and
\* the record of a scan that the host terminated stays running.
C20_ScanRecordLifecycle ==
    /\ [](CompletionTimeIffFinal /\ RunningUntilEnd)
    /\ [][/\ \A i \in DOMAIN scanHistory' \ DOMAIN scanHistory :
               /\ scanHistory'[i].status = "running"
               /\ ~scanHistory'[i].completedAtSet
          /\ \A i \in DOMAIN scanHistory :
               /\ i \in DOMAIN scanHistory'
               /\ scanHistory'[i] # scanHistory[i] =>
                     /\ scanHistory[i].status = "running"
                     /\ scanHistory'[i].status \in Terminal
                     /\ scanHistory'[i].completedAtSet
                     /\ \E s \in ScanInvocations :
                           /\ inv[s].scanId = i
                           /\ inv[s].pc = "loop" /\ inv'[s].pc = "done"
          /\ \A s \in ScanInvocations :
               (inv[s].pc # "done" /\ inv'[s].pc = "done") =>
                   scanHistory'[inv[s].scanId] # scanHistory[inv[s].scanId]]_vars

\* the host has terminated a scan after some of its images were recorded
C20_Witness ==
    \E s \in ScanInvocations :
        /\ inv[s].pc = "terminated"
        /\ scanHistory[inv[s].scanId].status = "running"
        /\ ~scanHistory[inv[s].scanId].completedAtSet
        /\ processedImage # <<>>

\* what one step adds to the tables
NewRows ==
    SubSeq(processedImage', Len(processedImage) + 1, Len(processedImage'))
NewJobs == DOMAIN failedJob' \ DOMAIN failedJob
NewWriteBacks == SubSeq(writeBacks', Len(writeBacks) + 1, Len(writeBacks'))

\* the step ends the processing of the invocation's current image
IterationEnds(s) ==
    inv[s].pc = "gen_done" /\ inv'[s].pc \in {"loop", "aborted"}

\* C21: when an error was thrown while an image was processed, the image is
\* counted as failed exactly once, one failed ProcessedImage with the (first)
\* error's message is recorded, and a FailedJob is enqueued if and only if
\* auto-retry is enabled and the classifier accepts the error.
C21_ThrownErrorHandling ==
    [][\A s \in ScanInvocations :
         (IterationEnds(s) /\ inv'[s].threw # <<>>) =>
            LET error == inv'[s].threw[1]
                img == CurrentImage(s)
            IN /\ inv'[s].errorCount = inv[s].errorCount + 1
               /\ Len(NewRows) = 1
               /\ NewRows[1].scanId = inv[s].scanId
               /\ NewRows[1].imageId = img.id
               /\ NewRows[1].status = "failed"
               /\ NewRows[1].errorMessage = error.message
               /\ Cardinality(NewJobs) <= 1
               /\ NewJobs # {} <=>
                     (inv[s].settings.autoRetry /\ isRetryableError(error))]_vars

\* C22: when the generator returned an empty caption (and nothing was thrown
\* while the image was processed), the image is counted as failed once, one
\* failed ProcessedImage with the message "No alt-text generated" is
\* recorded, no write-back is issued, and a FailedJob with that message is
\* enqueued if and only if auto-retry is enabled.
C22_EmptyCaptionHandling ==
    [][\A s \in ScanInvocations :
         (IterationEnds(s) /\ inv'[s].threw = <<>>
            /\ inv[s].gen.result.kind = "returned"
            /\ inv[s].gen.result.text = <<>>) =>
            LET img == CurrentImage(s) IN
            /\ inv'[s].pc = "loop"
            /\ inv'[s].cursor = inv[s].cursor + 1
            /\ inv'[s].errorCount = inv[s].errorCount + 1
            /\ inv'[s].updatedCount = inv[s].updatedCount
            /\ Len(NewRows) = 1
            /\ NewRows[1].imageId = img.id
            /\ NewRows[1].status = "failed"
            /\ NewRows[1].errorMessage = <<"No", "alt-text", "generated">>
            /\ NewWriteBacks = <<>>
            /\ NewJobs # {} <=> inv[s].settings.autoRetry
            /\ \A j \in NewJobs :
                  /\ failedJob'[j].imageId = img.id
                  /\ failedJob'[j].errorMessage = <<"No", "alt-text", "generated">>]_vars

\* an image with an empty caption has one failed record and a queued job whose
\* message the classifier does not accept
C22_Witness ==
    \E s \in ScanInvocations :
        /\ inv[s].pc = "loop"
        /\ inv[s].threw = <<>>
        /\ inv[s].errorCount = 1
        /\ \E j \in DOMAIN failedJob :
              /\ failedJob[j].errorMessage = <<"No", "alt-text", "generated">>
              /\ ~isRetryableError(Err(0, failedJob[j].errorMessage))
              /\ Cardinality(RowsFor(inv[s].scanId, failedJob[j].imageId)) = 1
              /\ WriteBacksFor(inv[s].scanId, failedJob[j].imageId) = {}

\* C23: when the write-back mutation answers with user errors, the image is
\* counted as failed, no ProcessedImage and no FailedJob is written for it and
\* the scan goes on to the next image; when it answers without errors (and
\* nothing was thrown), the image is counted as updated and one success
\* ProcessedImage with the old and the new alt text is recorded.
C23_WriteBackAnswer ==
    [][\A s \in ScanInvocations :
         (IterationEnds(s) /\ inv'[s].threw = <<>>
            /\ inv[s].gen.result.kind = "returned"
            /\ inv[s].gen.result.text # <<>>) =>
            LET img == CurrentImage(s) IN
            /\ Len(NewWriteBacks) = 1
            /\ NewWriteBacks[1].imageId = img.id
            /\ NewWriteBacks[1].alt = inv[s].gen.result.text
            /\ inv'[s].pc = "loop"
            /\ inv'[s].cursor = inv[s].cursor + 1
            /\ NewJobs = {}
            /\ IF NewWriteBacks[1].accepted
               THEN /\ inv'[s].updatedCount = inv[s].updatedCount + 1
                    /\ inv'[s].errorCount = inv[s].errorCount
                    /\ Len(NewRows) = 1
                    /\ NewRows[1].imageId = img.id
                    /\ NewRows[1].status = "success"
                    /\ NewRows[1].oldAltNull = img.altNull
                    /\ NewRows[1].oldAltText = img.alt
                    /\ NewRows[1].newAltText = inv[s].gen.result.text
               ELSE /\ inv'[s].errorCount = inv[s].errorCount + 1
                    /\ inv'[s].updatedCount = inv[s].updatedCount
                    /\ NewRows = <<>>]_vars

\* a rejected write-back: the image is counted as failed and has no record
C23_Witness ==
    \E s \in ScanInvocations :
        /\ inv[s].pc = "loop"
        /\ inv[s].threw = <<>>
        /\ inv[s].errorCount = 1
        /\ \E i \in 1..Len(writeBacks) :
              /\ writeBacks[i].scanId = inv[s].scanId
              /\ ~writeBacks[i].accepted
              /\ RowsFor(inv[s].scanId, writeBacks[i].imageId) = {}
        /\ failedJob = <<>>

(***************************************************************************)
(* Two invocations of the scan action for one shop, interleaved at their   *)
(* awaits: a catalog of one product with one image without alt text, and   *)
(* settings with one attempt per image.                                    *)
(***************************************************************************)
OverlapInvocations == {1, 2}

OverlapCatalog == MkCatalog(<< <<"empty">> >>)

OverlapSettings ==
    [exists |-> TRUE, altTextLength |-> "medium", autoRetry |-> TRUE,
     maxRetries |-> 1]

InitOverlap ==
    /\ now = 0
    /\ appSettings = [shop \in Shops |-> OverlapSettings]
    /\ scanHistory = <<>>
    /\ processedImage = <<>>
    /\ failedJob = <<>>
    /\ nextJobId = 1
    /\ shopCatalog = OverlapCatalog
    /\ catalogFetches = 0
    /\ writeBacks = <<>>
    /\ inv = [s \in OverlapInvocations |-> OffInv]
    /\ consumer = [c \in Consumers |-> IdleConsumer]
    /\ call = NoCall

NextOverlap ==
    \E s \in OverlapInvocations :
        \/ StartScan(s)
        \/ BeginImage(s)
        \/ GenStart(s)
        \/ GenAttempt(s)
        \/ GenExhausted(s)
        \/ HandleThrown(s)
        \/ HandleEmpty(s)
        \/ HandleCaption(s)
        \/ CompleteScan(s)
        \/ HostTerminates(s)

SpecOverlap == InitOverlap /\ [][NextOverlap]_vars

\* C28: overlapping scans of one shop are not prevented: an invocation that
\* has not started can start whatever the other invocation is doing, also
\* while the other one is running.
C28_OverlapNotPrevented ==
    \A s \in OverlapInvocations :
        inv[s].pc = "off" => ENABLED StartScan(s)

\* both invocations are under way for the same shop, their Scan records are
\* both running, neither was forced, and each has issued its own accepted
\* write-back and recorded its own success ProcessedImage for the same image
C28_Witness ==
    /\ \A s \in OverlapInvocations :
          /\ inv[s].pc \in Underway
          /\ ~inv[s].forceAll
          /\ scanHistory[inv[s].scanId].status = "running"
          /\ \E i \in WriteBacksFor(inv[s].scanId, <<1, 1>>) : writeBacks[i].accepted
          /\ \E i \in RowsFor(inv[s].scanId, <<1, 1>>) :
                processedImage[i].status = "success"
    /\ inv[1].shop = inv[2].shop
    /\ inv[1].scanId # inv[2].scanId

\* C29: a step of one invocation writes only that invocation's Scan record:
\* a Scan record it creates is its own and no other invocation's, the final
\* update changes only its own record and takes the aggregates and the
\* status from its own counters, and every ProcessedImage it records carries
\* its own scan identifier.
C29_OwnScanRecordOnly ==
    [][\A s \in OverlapInvocations :
         inv'[s] # inv[s] =>
            /\ \A i \in 1..Len(NewRows) :
                  /\ inv[s].scanId \in DOMAIN scanHistory
                  /\ NewRows[i].scanId = inv[s].scanId
            /\ Len(scanHistory') > Len(scanHistory) =>
                  /\ Len(scanHistory') = Len(scanHistory) + 1
                  /\ inv'[s].scanId = Len(scanHistory')
                  /\ \A t \in OverlapInvocations \ {s} :
                        inv'[t].scanId # inv'[s].scanId
            /\ \A i \in DOMAIN scanHistory :
                  scanHistory'[i] # scanHistory[i] =>
                     /\ i = inv[s].scanId
                     /\ scanHistory'[i].id = scanHistory[i].id
                     /\ scanHistory'[i].shop = inv[s].shop
                     /\ scanHistory'[i].totalImages = inv[s].totalImages
                     /\ scanHistory'[i].imagesProcessed = inv[s].updatedCount
                     /\ scanHistory'[i].imagesFailed = inv[s].errorCount
                     /\ scanHistory'[i].imagesSkipped =
                            inv[s].totalImages - inv[s].missingAltText
                     /\ scanHistory'[i].status =
                            (IF inv[s].errorCount > 0 THEN "completed_with_errors"
                             ELSE "completed")]_vars

\* both invocations have ended; the second to start has recorded an attempt
\* under its own identifier and each Scan record holds its own scan's counts
C29_Witness ==
    /\ \A s \in OverlapInvocations :
          /\ inv[s].pc = "done"
          /\ scanHistory[inv[s].scanId].imagesProcessed = inv[s].updatedCount
          /\ scanHistory[inv[s].scanId].imagesFailed = inv[s].errorCount
    /\ inv[1].scanId = 2
    /\ inv[2].scanId = 1
    /\ inv[1].updatedCount = 1
    /\ inv[2].errorCount = 1
    /\ RowsFor(2, <<1, 1>>) # {}
    /\ RowsFor(1, <<1, 1>>) # {}

(***************************************************************************)
(* The caption generator on its own: one generateAltText call, with the    *)
(* maxRetries of the shop's settings, as the scan passes it.               *)
(***************************************************************************)
InitGen ==
    /\ now = 0
    /\ appSettings \in [Shops -> SettingsRows]
    /\ scanHistory = <<>>
    /\ processedImage = <<>>
    /\ failedJob = <<>>
    /\ nextJobId = 1
    /\ shopCatalog = ExampleCatalog
    /\ catalogFetches = 0
    /\ writeBacks = <<>>
    /\ inv = [s \in ScanInvocations |->
                [OffInv EXCEPT
                    !.pc = "gen_start",
                    !.settings = getSettings(appSettings, "shop1"),
                    !.gen = NewGen(getSettings(appSettings, "shop1").maxRetries)]]
    /\ consumer = [c \in Consumers |-> IdleConsumer]
    /\ call = NoCall

NextGen ==
    \E s \in ScanInvocations :
        \/ GenStart(s)
        \/ GenAttempt(s)
        \/ GenExhausted(s)

SpecGen == InitGen /\ [][NextGen]_vars

\* C10: for maxRetries >= 1 one generateAltText call makes at most maxRetries
\* attempts (so at most maxRetries provider calls); while it is still looping
\* every attempt so far has failed, a return follows a single successful
\* attempt, which is the last one made; and the failure after the loop comes
\* after exactly maxRetries attempts, all failed.
C10_BoundedAttempts ==
    \A s \in ScanInvocations :
        LET g == inv[s].gen IN
        g.maxRetries >= 1 =>
            /\ g.providerCalls <= g.attemptsMade
            /\ g.attemptsMade <= g.maxRetries
            /\ inv[s].pc = "gen_loop" =>
                   g.result.kind = "none" /\ g.failures = g.attemptsMade
            /\ g.result.kind = "returned" =>
                   inv[s].pc = "gen_done" /\ g.attemptsMade = g.failures + 1
            /\ (g.result.kind = "thrown" /\ g.result.origin = "exhausted") =>
                   /\ inv[s].pc = "gen_done"
                   /\ g.attemptsMade = g.maxRetries
                   /\ g.failures = g.maxRetries

\* three consecutive rate-limit failures with maxRetries = 3: the call has
\* failed after three provider calls
C10_Witness ==
    \E s \in ScanInvocations :
        LET g == inv[s].gen IN
        /\ inv[s].pc = "gen_done"
        /\ g.maxRetries = 3
        /\ g.result.kind = "thrown"
        /\ g.result.origin = "exhausted"
        /\ g.providerCalls = 3
        /\ g.lastError.status = 429
        /\ Len(g.waits) = 2

\* the error of the rate-limit-specific failure (line 91)
RateLimitExceeded == <<"Rate", "limit", "exceeded", "-", "retry", "later">>

\* C11: when the attempts are exhausted after at least one failure, the call
\* fails with the rate-limit-specific error if the last failure was
\* rate-limiting (status 429, or a message matching the rate-limit pattern),
\* and otherwise with the generic error that carries the last failure's message.
C11_ExhaustedErrorKind ==
    \A s \in ScanInvocations :
        LET g == inv[s].gen IN
        (g.result.kind = "thrown" /\ g.result.origin = "exhausted"
            /\ ~g.lastError.null) =>
            IF g.lastError.status = 429
                  \/ MatchesNoCase(g.lastError.message, <<"rate", "limit">>)
            THEN g.result.error.message = RateLimitExceeded
            ELSE g.result.error.message =
                    <<"Failed", "to", "generate", "alt-text:">>
                        \o g.lastError.message

\* C25: after failed attempt k (counted from 0) the generator waits before the
\* next attempt: min(2000 * 2^k, 300000) ms when the failure was rate-limiting,
\* 1000 * (k + 1) ms otherwise; after the last allowed attempt it does not
\* wait, and nothing else makes it wait.
C25_WaitsBetweenAttempts ==
    [][\A s \in ScanInvocations :
         LET g == inv[s].gen
             h == inv'[s].gen
             k == g.attempt
             backoff == IF 2000 * (2 ^ k) < 300000 THEN 2000 * (2 ^ k) ELSE 300000
             expected == IF IsRateLimit(h.lastError) THEN backoff ELSE 1000 * (k + 1)
         IN IF h.failures = g.failures + 1
            THEN IF k + 1 < g.maxRetries
                 THEN h.waits = Append(g.waits, expected)
                 ELSE h.waits = g.waits
            ELSE h.waits = g.waits]_vars

\* three rate-limit failures with maxRetries = 3: the call waited 2000 ms and
\* 4000 ms and failed without a third wait
C25_Witness ==
    \E s \in ScanInvocations :
        LET g == inv[s].gen IN
        /\ g.maxRetries = 3
        /\ g.failures = 3
        /\ g.result.kind = "thrown"
        /\ g.result.origin = "exhausted"
        /\ IsRateLimit(g.lastError)
        /\ g.waits = <<2000, 4000>>

(***************************************************************************)
(* The dead-letter queue and its consumers. A consumer lists the due jobs  *)
(* and then calls markRetrying, scheduleRetry and removeFailedJob on the   *)
(* ids it was given. scheduleRetry reads the row and updates it in two     *)
(* separate store calls.                                                   *)
(***************************************************************************)
QueueVarsUnchanged ==
    UNCHANGED <<appSettings, scanHistory, processedImage, shopCatalog,
                catalogFetches, writeBacks, inv, call>>

\* a scan of the shop enqueues a failed image with the shop's settings: the
\* catch block's call (lines 267-277) after generateAltText threw a store
\* time-out from its own getSettings call, which can happen for every maxRetries
EnqueueJob(shop) ==
    /\ nextJobId <= MaxJobs
    /\ getSettings(appSettings, shop).autoRetry
    /\ failedJob' = addFailedJob(failedJob, nextJobId,
                        ScanJobData(shop, getSettings(appSettings, shop),
                                    <<1, 1>>, DbTimeout.message), now)
    /\ nextJobId' = nextJobId + 1
    /\ UNCHANGED <<now, consumer>>
    /\ QueueVarsUnchanged

\* time passes
Tick ==
    /\ now < MaxTicks * EnqueueDelayMs
    /\ now' = now + EnqueueDelayMs
    /\ UNCHANGED <<failedJob, nextJobId, consumer>>
    /\ QueueVarsUnchanged

\* getPendingRetries(shop)
ListDue(c, shop) ==
    /\ consumer' = [consumer EXCEPT ![c].due = DueIds(failedJob, shop, now)]
    /\ UNCHANGED <<now, failedJob, nextJobId>>
    /\ QueueVarsUnchanged

\* markRetrying(jobId) on a row that exists
MarkRetrying(c, j) ==
    /\ j \in consumer[c].due
    /\ j \in DOMAIN failedJob
    /\ failedJob' = [failedJob EXCEPT ![j] = markRetrying(@, now)]
    /\ UNCHANGED <<now, nextJobId, consumer>>
    /\ QueueVarsUnchanged

\* scheduleRetry(jobId), lines 61-65: findUnique; a missing row throws and the
\* call is over
ScheduleRetryRead(c, j) ==
    /\ j \in consumer[c].due
    /\ consumer[c].read = <<>>
    /\ j \in DOMAIN failedJob => failedJob[j].retryCount < MaxRetryCount
    /\ LET found == scheduleRetryFind(failedJob, j) IN
       consumer' = [consumer EXCEPT ![c].read = found.read,
                                    ![c].thrown = found.error]
    /\ UNCHANGED <<now, failedJob, nextJobId>>
    /\ QueueVarsUnchanged

\* scheduleRetry(jobId), lines 67-90: the update; on a row deleted in between
\* the store's update throws and changes nothing
ScheduleRetryWrite(c) ==
    /\ consumer[c].read # <<>>
    /\ LET read == consumer[c].read[1] IN
       IF read.id \in DOMAIN failedJob
       THEN /\ failedJob' = [failedJob EXCEPT ![read.id] =
                    scheduleRetryUpdate(@, read, DefaultRetryDelayMs, now)]
            /\ consumer' = [consumer EXCEPT ![c].read = <<>>]
       ELSE /\ failedJob' = failedJob
            /\ consumer' = [consumer EXCEPT
                    ![c].read = <<>>,
                    ![c].thrown = "Record to update not found"]
    /\ UNCHANGED <<now, nextJobId>>
    /\ QueueVarsUnchanged

\* removeFailedJob(jobId) on a row that exists
RemoveJob(c, j) ==
    /\ j \in consumer[c].due
    /\ j \in DOMAIN failedJob
    /\ failedJob' = removeFailedJob(failedJob, j)
    /\ UNCHANGED <<now, nextJobId, consumer>>
    /\ QueueVarsUnchanged

InitQueue ==
    /\ now = 0
    /\ appSettings \in [Shops -> SettingsRows]
    /\ scanHistory = <<>>
    /\ processedImage = <<>>
    /\ failedJob = <<>>
    /\ nextJobId = 1
    /\ shopCatalog = ExampleCatalog
    /\ catalogFetches = 0
    /\ writeBacks = <<>>
    /\ inv = [s \in ScanInvocations |-> OffInv]
    /\ consumer = [c \in Consumers |-> IdleConsumer]
    /\ call = NoCall

JobIds == 1..MaxJobs

NextQueue ==
    \/ \E shop \in Shops : EnqueueJob(shop)
    \/ Tick
    \/ \E c \in Consumers, shop \in Shops : ListDue(c, shop)
    \/ \E c \in Consumers, j \in JobIds : MarkRetrying(c, j)
    \/ \E c \in Consumers, j \in JobIds : ScheduleRetryRead(c, j)
    \/ \E c \in Consumers : ScheduleRetryWrite(c)
    \/ \E c \in Consumers, j \in JobIds : RemoveJob(c, j)

SpecQueue == InitQueue /\ [][NextQueue]_vars

(***************************************************************************)
(* Properties of the dead-letter queue.                                    *)
(***************************************************************************)
\* the jobs that exist before and after a step
Surviving == DOMAIN failedJob \cap DOMAIN failedJob'

\* C7: repeated reschedule calls make a job failed_permanent exactly at the call
\* that makes retryCount equal to maxRetries and never earlier: a call that
\* makes the job failed_permanent leaves retryCount = maxRetries, and a call
\* that leaves retryCount below maxRetries leaves the job pending with
\* retryCount one higher than before.
C7_PermanentExactlyAtCeiling ==
    [][\A c \in Consumers :
         (consumer[c].read # <<>> /\ consumer'[c].read = <<>>) =>
            \A j \in Surviving \cap {consumer[c].read[1].id} :
               /\ (failedJob[j].status # "failed_permanent"
                     /\ failedJob'[j].status = "failed_permanent")
                    => failedJob'[j].retryCount = failedJob'[j].maxRetries
               /\ failedJob'[j].retryCount < failedJob'[j].maxRetries
                    => /\ failedJob'[j].status = "pending"
                       /\ failedJob'[j].retryCount = failedJob[j].retryCount + 1]_vars

\* C8: in every reachable state of the queue every pending FailedJob has
\* retryCount < maxRetries.
C8_PendingBelowCeiling ==
    \A j \in DOMAIN failedJob :
        failedJob[j].status = "pending" =>
            failedJob[j].retryCount < failedJob[j].maxRetries

\* C9: failed_permanent is terminal: no queue operation of any consumer changes
\* the status of a job that is failed_permanent, and such a job is in no later
\* list of due jobs.
C9_PermanentIsTerminal ==
    [][/\ \A j \in Surviving :
            failedJob[j].status = "failed_permanent"
                => failedJob'[j].status = "failed_permanent"
       /\ \A c \in Consumers :
            consumer'[c].due # consumer[c].due =>
                \A j \in consumer'[c].due :
                    failedJob[j].status # "failed_permanent"]_vars

\* C16: addFailedJob persists a job with retryCount 0, status pending,
\* nextRetryAt one minute after the call, and maxRetries equal to the value
\* the caller supplied (the scan supplies the shop's settings value).
C16_EnqueuePersists ==
    [][\A j \in DOMAIN failedJob' \ DOMAIN failedJob :
         /\ failedJob'[j].retryCount = 0
         /\ failedJob'[j].status = "pending"
         /\ failedJob'[j].nextRetryAt = now + 60000
         /\ failedJob'[j].maxRetries =
               getSettings(appSettings, failedJob'[j].shop).maxRetries]_vars

\* C18: scheduleRetry called for an id whose row does not exist fails with the
\* not-found error and leaves the FailedJob table as it is; and the update of
\* a call whose row was removed after the lookup creates and changes nothing.
C18_RescheduleMissing ==
    [][\A c \in Consumers, j \in JobIds :
         /\ (ScheduleRetryRead(c, j) /\ j \notin DOMAIN failedJob) =>
               /\ consumer'[c].thrown = "Job not found"
               /\ consumer'[c].read = <<>>
               /\ failedJob' = failedJob
         /\ (ScheduleRetryWrite(c) /\ consumer[c].read[1].id = j
                /\ j \notin DOMAIN failedJob) =>
               /\ consumer'[c].thrown # "none"
               /\ failedJob' = failedJob]_vars

\* consumer c2 has called scheduleRetry for job 1 after the job was removed
C18_Witness ==
    /\ failedJob = <<>>
    /\ nextJobId > 1
    /\ consumer["c2"].due = {1}
    /\ consumer["c2"].thrown = "Job not found"

\* C24: every status change of a FailedJob is pending -> retrying, retrying ->
\* pending or retrying -> failed_permanent: a job becomes retrying only from
\* pending, and a reschedule is applied only to a job that is retrying.
C24_StatusLifecycle ==
    [][/\ \A j \in Surviving :
            failedJob'[j].status # failedJob[j].status =>
               \/ /\ failedJob[j].status = "pending"
                  /\ failedJob'[j].status = "retrying"
               \/ /\ failedJob[j].status = "retrying"
                  /\ failedJob'[j].status \in {"pending", "failed_permanent"}
       /\ \A c \in Consumers :
            (consumer[c].read # <<>> /\ consumer'[c].read = <<>>) =>
               \A j \in Surviving \cap {consumer[c].read[1].id} :
                  failedJob[j].status = "retrying"]_vars

\* C30: every completed reschedule of an existing job raises its stored
\* retryCount by exactly one, whichever consumers reschedule it and however
\* their calls overlap, so that n completed reschedules leave retryCount = n.
C30_NoLostReschedule ==
    [][\A c \in Consumers :
         (consumer[c].read # <<>> /\ consumer'[c].read = <<>>) =>
            \A j \in Surviving \cap {consumer[c].read[1].id} :
               failedJob'[j].retryCount = failedJob[j].retryCount + 1]_vars

(***************************************************************************)
(* settings.server: getSettings and updateSettings called concurrently for *)
(* one shop. getSettings is a findUnique followed, when no row was found,  *)
(* by a create; the table has a unique index on shop.                      *)
(***************************************************************************)
SettingsCallers == {"a", "b"}

UniqueConstraintFailed == <<"Unique", "constraint", "failed", "on", "shop">>

IdleCaller == [pc |-> "idle", result |-> NoSettingsRow, thrown |-> <<>>]

\* lines 156-158 and, for a row that was found, 169-176
GetSettingsFind(p, shop) ==
    /\ call.fn = "settings"
    /\ call.caller[p].pc = "idle"
    /\ call' = [call EXCEPT !.caller[p] =
            IF appSettings[shop].exists
            THEN [pc |-> "returned", result |-> appSettings[shop], thrown |-> <<>>]
            ELSE [pc |-> "missing", result |-> NoSettingsRow, thrown |-> <<>>]]
    /\ UNCHANGED <<now, appSettings, scanHistory, processedImage, failedJob,
                   nextJobId, shopCatalog, catalogFetches, writeBacks, inv,
                   consumer>>

\* lines 160-176: the create after a findUnique that found nothing; the
\* unique index rejects it when the shop has a row by now
GetSettingsCreate(p, shop) ==
    /\ call.fn = "settings"
    /\ call.caller[p].pc = "missing"
    /\ IF appSettings[shop].exists
       THEN /\ appSettings' = appSettings
            /\ call' = [call EXCEPT !.caller[p] =
                    [pc |-> "thrown", result |-> NoSettingsRow,
                     thrown |-> UniqueConstraintFailed]]
       ELSE /\ appSettings' = [appSettings EXCEPT ![shop] = DEFAULT_SETTINGS]
            /\ call' = [call EXCEPT !.caller[p] =
                    [pc |-> "returned", result |-> DEFAULT_SETTINGS,
                     thrown |-> <<>>]]
    /\ UNCHANGED <<now, scanHistory, processedImage, failedJob, nextJobId,
                   shopCatalog, catalogFetches, writeBacks, inv, consumer>>

\* the caller's next request
GetSettingsAgain(p) ==
    /\ call.fn = "settings"
    /\ call.caller[p].pc = "returned"
    /\ call' = [call EXCEPT !.caller[p] = IdleCaller]
    /\ UNCHANGED <<now, appSettings, scanHistory, processedImage, failedJob,
                   nextJobId, shopCatalog, catalogFetches, writeBacks, inv,
                   consumer>>

\* the settings action: updateSettings(shop, settings), one upsert
UpdateSettingsCall(shop) ==
    /\ call.fn = "settings"
    /\ \E settings \in SettingsRows \ {NoSettingsRow} :
         appSettings' = updateSettings(appSettings, shop, settings)
    /\ UNCHANGED <<now, scanHistory, processedImage, failedJob, nextJobId,
                   shopCatalog, catalogFetches, writeBacks, inv, consumer, call>>

InitSettings ==
    /\ now = 0
    /\ appSettings \in [Shops -> SettingsRows]
    /\ scanHistory = <<>>
    /\ processedImage = <<>>
    /\ failedJob = <<>>
    /\ nextJobId = 1
    /\ shopCatalog = ExampleCatalog
    /\ catalogFetches = 0
    /\ writeBacks = <<>>
    /\ inv = [s \in ScanInvocations |-> OffInv]
    /\ consumer = [c \in Consumers |-> IdleConsumer]
    /\ call = [fn |-> "settings", caller |-> [p \in SettingsCallers |-> IdleCaller]]

NextSettings ==
    \E shop \in Shops :
        \/ \E p \in SettingsCallers :
              \/ GetSettingsFind(p, shop)
              \/ GetSettingsCreate(p, shop)
              \/ GetSettingsAgain(p)
        \/ UpdateSettingsCall(shop)

SpecSettings == InitSettings /\ [][NextSettings]_vars

\* C27: under every interleaving of getSettings and updateSettings calls for
\* one shop, no getSettings call fails: each call that has ended has returned
\* a settings value of the shop (the shop never has more than one row: the
\* table is keyed by shop).
C27_EveryReadReturns ==
    call.fn = "settings" =>
        \A p \in SettingsCallers :
            /\ call.caller[p].pc # "thrown"
            /\ call.caller[p].pc = "returned" => call.caller[p].result.exists

(***************************************************************************)
(* getPendingRetries called on its own, on the tables the queue operations *)
(* can leave behind for two shops.                                         *)
(***************************************************************************)
MaxTableJobs == 3      \* rows of the FailedJob tables that are listed

QueueShops == {"shop1", "shop2"}
JobStatuses == {"pending", "retrying", "failed_permanent"}

\* the rows a job with this id can be: enqueued at 0 or 30 s by either shop,
\* in any status, to be retried at 90 s or at 180 s
TableRows(id) ==
    { [ NewFailedJob(id,
                     [ shop |-> shop, imageId |-> <<id, 1>>,
                       errorMessage |-> DbTimeout.message,
                       maxRetries |-> [supplied |-> FALSE, value |-> 0] ],
                     created)
          EXCEPT !.status = status, !.nextRetryAt = nextRetryAt ] :
        shop \in QueueShops, created \in {0, 30000}, status \in JobStatuses,
        nextRetryAt \in {90000, 180000} }

Tables ==
    UNION { { t \in [1..k -> UNION { TableRows(id) : id \in 1..k }] :
                \A id \in 1..k : t[id].id = id } : k \in 1..MaxTableJobs }

\* getPendingRetries(shop)
CallGetPending(shop) ==
    /\ call = NoCall
    /\ \E list \in getPendingRetries(failedJob, shop, now) :
          call' = [fn |-> "getPendingRetries", shop |-> shop, result |-> list]
    /\ UNCHANGED <<now, appSettings, scanHistory, processedImage, failedJob,
                   nextJobId, shopCatalog, catalogFetches, writeBacks, inv,
                   consumer>>

InitDue ==
    /\ now = 90000
    /\ appSettings = [shop \in Shops |-> NoSettingsRow]
    /\ scanHistory = <<>>
    /\ processedImage = <<>>
    /\ failedJob \in Tables
    /\ nextJobId = Len(failedJob) + 1
    /\ shopCatalog = ExampleCatalog
    /\ catalogFetches = 0
    /\ writeBacks = <<>>
    /\ inv = [s \in ScanInvocations |-> OffInv]
    /\ consumer = [c \in Consumers |-> IdleConsumer]
    /\ call = NoCall

NextDue == \E shop \in QueueShops : CallGetPending(shop)

SpecDue == InitDue /\ [][NextDue]_vars

\* C17: getPendingRetries(shop) returns exactly the jobs of the shop that are
\* pending with nextRetryAt <= now, each once, the earlier created first; a
\* job that is retrying or failed_permanent, belongs to another shop or is to
\* be retried later is not in the list.
C17_ListDue ==
    call.fn = "getPendingRetries" =>
        LET list == call.result IN
        /\ \A j \in DOMAIN failedJob :
              (\E i \in DOMAIN list : list[i] = j) <=>
                 /\ failedJob[j].shop = call.shop
                 /\ failedJob[j].status = "pending"
                 /\ failedJob[j].nextRetryAt <= now
        /\ \A a, b \in DOMAIN list :
              a < b => /\ list[a] # list[b]
                       /\ failedJob[list[a]].createdAt <= failedJob[list[b]].createdAt
        /\ \A i \in DOMAIN list :
              /\ list[i] \in DOMAIN failedJob
              /\ failedJob[list[i]].status \notin {"retrying", "failed_permanent"}
              /\ failedJob[list[i]].shop = call.shop
              /\ failedJob[list[i]].nextRetryAt <= now

\* job 3 was created before job 1, both are due, and job 2 is being retried:
\* the list is job 3, then job 1
C17_Witness ==
    /\ call.fn = "getPendingRetries"
    /\ call.result = <<3, 1>>
    /\ failedJob[3].createdAt < failedJob[1].createdAt
    /\ failedJob[2].status = "retrying"
    /\ failedJob[2].shop = call.shop
    /\ failedJob[2].nextRetryAt <= now

(***************************************************************************)
(* pagination.server: fetchAllProducts called on its own, page by page.    *)
(* A cursor is <<>> (null) or <<k>>, the position after k products.        *)
(***************************************************************************)
MaxFetchProducts == 5  \* products of the catalogs that are fetched page by page
MaxSmallPage == 3      \* page sizes 1..MaxSmallPage beside the default

FetchCatalogs ==
    { MkCatalog([p \in 1..n |-> <<"empty">>]) : n \in 0..MaxFetchProducts }

PageSizes == 1..MaxSmallPage \cup {PageSize}

\* fetchProductsPage(admin, pageSize, cursor): one request to the platform
fetchProductsPage(catalog, pageSize, cursor) ==
    LET page == Page(catalog, pageSize, IF cursor = <<>> THEN 0 ELSE cursor[1])
    IN [ products |-> page.products,
         hasNextPage |-> page.hasNextPage,
         endCursor |-> IF page.products = <<>> THEN <<>> ELSE <<page.endCursor>> ]

\* a loop that asks for the first page again
NextCursorNull(result) == <<>>

\* line 114: the cursor of the next request
NextCursor(result) == result.endCursor

\* lines 94-101: the call begins
FetchAllStart(pageSize, onProgress) ==
    /\ call = NoCall
    /\ call' = [ fn |-> "fetchAllProducts",
                 pageSize |-> pageSize,
                 onProgress |-> onProgress,
                 allProducts |-> <<>>,
                 cursor |-> <<>>,
                 hasNextPage |-> TRUE,
                 requests |-> <<>>,
                 progress |-> <<>>,
                 pc |-> "loop" ]
    /\ UNCHANGED <<now, appSettings, scanHistory, processedImage, failedJob,
                   nextJobId, shopCatalog, catalogFetches, writeBacks, inv,
                   consumer>>

\* lines 103-115: one iteration of the while loop
FetchAllPage ==
    /\ call.fn = "fetchAllProducts"
    /\ call.pc = "loop"
    /\ call.hasNextPage
    /\ LET result == fetchProductsPage(shopCatalog, call.pageSize, call.cursor)
           allProducts == call.allProducts \o result.products
       IN call' = [call EXCEPT
              !.requests = Append(@, call.cursor),
              !.allProducts = allProducts,
              !.progress = IF call.onProgress
                           THEN Append(@, [ products |-> result.products,
                                            totalFetched |-> Len(allProducts) ])
                           ELSE @,
              !.hasNextPage = result.hasNextPage,
              !.cursor = NextCursor(result) ]
    /\ catalogFetches' = catalogFetches + 1
    /\ UNCHANGED <<now, appSettings, scanHistory, processedImage, failedJob,
                   nextJobId, shopCatalog, writeBacks, inv, consumer>>

\* line 117: the loop has ended
FetchAllReturn ==
    /\ call.fn = "fetchAllProducts"
    /\ call.pc = "loop"
    /\ ~call.hasNextPage
    /\ call' = [call EXCEPT !.pc = "returned"]
    /\ UNCHANGED <<now, appSettings, scanHistory, processedImage, failedJob,
                   nextJobId, shopCatalog, catalogFetches, writeBacks, inv,
                   consumer>>

InitFetch ==
    /\ now = 0
    /\ appSettings = [shop \in Shops |-> NoSettingsRow]
    /\ scanHistory = <<>>
    /\ processedImage = <<>>
    /\ failedJob = <<>>
    /\ nextJobId = 1
    /\ shopCatalog \in FetchCatalogs
    /\ catalogFetches = 0
    /\ writeBacks = <<>>
    /\ inv = [s \in ScanInvocations |-> OffInv]
    /\ consumer = [c \in Consumers |-> IdleConsumer]
    /\ call = NoCall

NextFetch ==
    \/ \E pageSize \in PageSizes, onProgress \in BOOLEAN :
          FetchAllStart(pageSize, onProgress)
    \/ FetchAllPage
    \/ FetchAllReturn

\* the caller awaits the call: a request that can be made is made
SpecFetch == InitFetch /\ [][NextFetch]_vars /\ WF_vars(NextFetch)

\* the page with number i of the catalog under the call's page size
PageNo(i) ==
    LET first == (i - 1) * call.pageSize
        last == IF i * call.pageSize < Len(shopCatalog)
                THEN i * call.pageSize ELSE Len(shopCatalog)
    IN [ products |-> SubSeq(shopCatalog, first + 1, last),
         count |-> last,
         more |-> last < Len(shopCatalog) ]

\* what holds of a fetchAllProducts call at every moment
FetchAllFollowsCursor ==
    call.fn = "fetchAllProducts" =>
        LET n == Len(call.requests) IN
        /\ n = catalogFetches
        /\ n >= 1 => call.requests[1] = <<>>
        /\ \A i \in 2..n : call.requests[i] = <<PageNo(i - 1).count>>
        /\ \A i \in 1..(n - 1) : PageNo(i).more
        /\ call.pc = "returned" => n >= 1 /\ ~PageNo(n).more
        /\ call.allProducts = SubSeq(shopCatalog, 1, Len(call.allProducts))
        /\ n >= 1 => Len(call.allProducts) = PageNo(n).count
        /\ call.pc = "returned" => call.allProducts = shopCatalog
        /\ call.onProgress =>
              /\ Len(call.progress) = n
              /\ \A i \in 1..n :
                    /\ call.progress[i].products = PageNo(i).products
                    /\ call.progress[i].totalFetched = PageNo(i).count
        /\ ~call.onProgress => call.progress = <<>>

\* C19: fetchAllProducts requests the first page with a null cursor and each
\* later page with the previous page's endCursor, stops after the first page
\* without a next page, returns the products of the fetched pages in page
\* order, calls the progress callback once per page with the page's products
\* and the cumulative count, and returns once the platform has reported a
\* page without a next page.
C19_FetchAllProducts ==
    /\ []FetchAllFollowsCursor
    /\ (call.fn = "fetchAllProducts")
          ~> (call.fn = "fetchAllProducts" /\ call.pc = "returned")

\* five products fetched in three pages of two, with the progress callback
C19_Witness ==
    /\ call.fn = "fetchAllProducts"
    /\ call.pc = "returned"
    /\ call.pageSize = 2
    /\ Len(shopCatalog) = 5
    /\ call.requests = << <<>>, <<2>>, <<4>> >>
    /\ Len(call.progress) = 3
    /\ call.progress[3].totalFetched = 5

(***************************************************************************)
(* The exported pure functions called on their own: the backoff policy,    *)
(* the retryable-error classifier and the caption sanitation.              *)
(***************************************************************************)
MaxBackoffN == 10      \* calculateBackoffDelay is called with 0..MaxBackoffN
MaxWords == 3          \* words in the error messages given to the classifier
TailLen == 5           \* characters after the filler in the raw captions

\* calculateBackoffDelay(n); the previous call is kept beside the new one
CallBackoff(n) ==
    /\ call.fn \in {"none", "calculateBackoffDelay"}
    /\ call' = [ fn |-> "calculateBackoffDelay",
                 n |-> n,
                 delay |-> calculateBackoffDelay(n),
                 prevN |-> IF call.fn = "calculateBackoffDelay" THEN call.n ELSE n,
                 prevDelay |-> IF call.fn = "calculateBackoffDelay"
                               THEN call.delay ELSE calculateBackoffDelay(n) ]
    /\ UNCHANGED <<now, appSettings, scanHistory, processedImage, failedJob,
                   nextJobId, shopCatalog, catalogFetches, writeBacks, inv,
                   consumer>>

\* the words of the error messages given to the classifier
Vocabulary ==
    { "rate", "Rate", "limit", "LIMIT", "429", "timeout", "Timeout",
      "ECONNRESET", "econnreset", "ETIMEDOUT", "network", "NETWORK",
      "invalid", "product", "id" }

Messages == UNION { [1..k -> Vocabulary] : k \in 0..MaxWords }

\* isRetryableError(new Error(message))
CallClassifier(message) ==
    /\ call = NoCall
    /\ call' = [ fn |-> "isRetryableError",
                 message |-> message,
                 result |-> isRetryableError(Err(0, message)) ]
    /\ UNCHANGED <<now, appSettings, scanHistory, processedImage, failedJob,
                   nextJobId, shopCatalog, catalogFetches, writeBacks, inv,
                   consumer>>

\* the raw captions of the provider: a run of letters (none, or four short of
\* the ceiling) followed by a few characters
Filler(k) == [i \in 1..k |-> "a"]

Tails == UNION { [1..k -> {"a", " ", "\""}] : k \in 0..TailLen }

AltTextLengths == {"short", "medium", "long"}

RawCaptions(maxLength) ==
    { Filler(k) \o t : k \in {0, maxLength - 4}, t \in Tails }

\* lines 52-63 applied to a raw caption under a length preference, and applied
\* once more to its own result
CallSanitize(raw, length) ==
    LET maxLength == getMaxLength(length)
        result == Sanitize(raw, maxLength)
    IN
    /\ call = NoCall
    /\ call' = [ fn |-> "sanitize",
                 raw |-> raw,
                 maxLength |-> maxLength,
                 result |-> result,
                 again |-> Sanitize(result, maxLength) ]
    /\ UNCHANGED <<now, appSettings, scanHistory, processedImage, failedJob,
                   nextJobId, shopCatalog, catalogFetches, writeBacks, inv,
                   consumer>>

InitLib ==
    /\ now = 0
    /\ appSettings = [shop \in Shops |-> NoSettingsRow]
    /\ scanHistory = <<>>
    /\ processedImage = <<>>
    /\ failedJob = <<>>
    /\ nextJobId = 1
    /\ shopCatalog = ExampleCatalog
    /\ catalogFetches = 0
    /\ writeBacks = <<>>
    /\ inv = [s \in ScanInvocations |-> OffInv]
    /\ consumer = [c \in Consumers |-> IdleConsumer]
    /\ call = NoCall

NextLib ==
    \/ \E n \in 0..MaxBackoffN : CallBackoff(n)
    \/ \E message \in Messages : CallClassifier(message)
    \/ \E length \in AltTextLengths :
          \E raw \in RawCaptions(getMaxLength(length)) : CallSanitize(raw, length)

SpecLib == InitLib /\ [][NextLib]_vars

(***************************************************************************)
(* Properties of the pure functions.                                       *)
(***************************************************************************)
\* C12: calculateBackoffDelay(n) = min(2000 * 2^n, 300000) for every n >= 0:
\* delay(0) = 2000, delay(7) = 256000, delay(8) = 300000, and a call with a
\* larger n never gives a smaller delay than a call with a smaller n.
C12_BackoffDelay ==
    call.fn = "calculateBackoffDelay" =>
        /\ 2000 * (2 ^ call.n) <= 300000 => call.delay = 2000 * (2 ^ call.n)
        /\ 2000 * (2 ^ call.n) > 300000 => call.delay = 300000
        /\ call.n = 0 => call.delay = 2000
        /\ call.n = 7 => call.delay = 256000
        /\ call.n = 8 => call.delay = 300000
        /\ call.prevN <= call.n => call.prevDelay <= call.delay

\* delay(7) followed by delay(8): the first clamped value after the last
\* unclamped one
C12_Witness ==
    /\ call.fn = "calculateBackoffDelay"
    /\ call.prevN = 7 /\ call.prevDelay = 256000
    /\ call.n = 8 /\ call.delay = 300000

\* the message has one of the words ws
HasWord(message, ws) == \E i \in 1..Len(message) : message[i] \in ws

\* the message has the phrase "rate limit" in some mix of cases
HasRateLimit(message) ==
    \E i \in 1..(Len(message) - 1) :
        /\ message[i] \in {"rate", "Rate", "RATE"}
        /\ message[i + 1] \in {"limit", "Limit", "LIMIT"}

\* C13: isRetryableError is true exactly for the messages that contain
\* "rate limit", "timeout" or "network" in any case, or "429", "ECONNRESET" or
\* "ETIMEDOUT" as written; "invalid product id" is not retryable.
C13_RetryableClassifier ==
    call.fn = "isRetryableError" =>
        /\ call.result =
              ( \/ HasRateLimit(call.message)
                \/ HasWord(call.message, {"429"})
                \/ HasWord(call.message, {"timeout", "Timeout", "TIMEOUT"})
                \/ HasWord(call.message, {"ECONNRESET"})
                \/ HasWord(call.message, {"ETIMEDOUT"})
                \/ HasWord(call.message, {"network", "Network", "NETWORK"}) )
        /\ call.message = <<"invalid", "product", "id">> => ~call.result

\* a mixed-case "Rate LIMIT" in front of an unrelated word is retryable
C13_Witness ==
    /\ call.fn = "isRetryableError"
    /\ call.message = <<"Rate", "LIMIT", "id">>
    /\ call.result

\* the caption after trimming, quote-stripping and white-space normalization,
\* before the length ceiling is applied
Normalized(raw) == Trim(CollapseSpaces(StripQuotes(Trim(raw))))

\* C14 as stated: a caption whose normalized form is longer than the ceiling C
\* is sanitized to length exactly C, ends in "..." and starts with the first
\* C-3 characters of the normalized form.
C14_TruncationExact ==
    call.fn = "sanitize" =>
        LET norm == Normalized(call.raw)
            C == call.maxLength
        IN Len(norm) > C =>
              /\ Len(call.result) = C
              /\ SubSeq(call.result, C - 2, C) = Ellipsis
              /\ SubSeq(call.result, 1, C - 3) = SubSeq(norm, 1, C - 3)

\* C14 amended: a caption whose normalized form is longer than the ceiling C
\* is sanitized to the first C-3 characters of the normalized form followed
\* by "...", of length exactly C, unless the character at position C-3 is a
\* space: then that space is dropped and the result is the first C-4
\* characters followed by "...", of length C-1.
C14_TruncationUpToSpace ==
    call.fn = "sanitize" =>
        LET norm == Normalized(call.raw)
            C == call.maxLength
        IN Len(norm) > C =>
              /\ norm[C - 3] # " " =>
                    /\ call.result = SubSeq(norm, 1, C - 3) \o Ellipsis
                    /\ Len(call.result) = C
              /\ norm[C - 3] = " " =>
                    /\ call.result = SubSeq(norm, 1, C - 4) \o Ellipsis
                    /\ Len(call.result) = C - 1

\* a caption one longer than the ceiling with a space at position C-3
C14_Witness ==
    /\ call.fn = "sanitize"
    /\ Len(Normalized(call.raw)) = call.maxLength + 1
    /\ Normalized(call.raw)[call.maxLength - 3] = " "
    /\ Len(call.result) = call.maxLength - 1

\* a caption is clean: within the ceiling, no white space or quote at either
\* end, and every white space inside is one single space character
Clean(caption, maxLength) ==
    /\ Len(caption) <= maxLength
    /\ caption # <<>> =>
          /\ ~IsSpace(caption[1]) /\ ~IsQuote(caption[1])
          /\ ~IsSpace(caption[Len(caption)]) /\ ~IsQuote(caption[Len(caption)])
    /\ \A i \in 1..Len(caption) :
          IsSpace(caption[i]) =>
              caption[i] = " " /\ ~IsSpace(caption[i + 1])

LeadingQuotes(t) ==
    CHOOSE n \in 0..Len(t) :
        /\ \A i \in 1..n : IsQuote(t[i])
        /\ n < Len(t) => ~IsQuote(t[n + 1])

\* the number of quote characters a text ends with
TrailingQuotes(t) ==
    CHOOSE n \in 0..Len(t) :
        /\ \A i \in 1..n : IsQuote(t[Len(t) + 1 - i])
        /\ n < Len(t) => ~IsQuote(t[Len(t) - n])

\* a text without its first character if that is a quote, and without its
\* last character if that is a quote
OneLayerOff(t) ==
    LET a == IF Len(t) > 0 /\ IsQuote(t[1]) THEN 1 ELSE 0
        b == IF Len(t) > a /\ IsQuote(t[Len(t)]) THEN 1 ELSE 0
    IN SubSeq(t, a + 1, Len(t) - b)

\* a text without the quote characters it starts with and ends with
AllLayersOff(t) ==
    LET a == LeadingQuotes(t)
        r == SubSeq(t, a + 1, Len(t))
    IN SubSeq(r, 1, Len(r) - TrailingQuotes(r))

\* C26 as stated: sanitation removes one quote character from each side of
\* the trimmed text, also when the text starts or ends with two or more; for
\* a text within the ceiling the result is the trimmed text less that one
\* layer, with white space collapsed and trimmed.
C26_OneLayerStripped ==
    call.fn = "sanitize" =>
        LET expected == Trim(CollapseSpaces(OneLayerOff(Trim(call.raw))))
        IN Len(expected) <= call.maxLength => call.result = expected

\* C26 amended: sanitation removes every quote character the trimmed text
\* starts with and every quote character it ends with; for a text within the
\* ceiling the result is the trimmed text less those, with white space
\* collapsed and trimmed.
C26_AllLayersStripped ==
    call.fn = "sanitize" =>
        LET expected == Trim(CollapseSpaces(AllLayersOff(Trim(call.raw))))
        IN Len(expected) <= call.maxLength => call.result = expected

\* a text in two layers of quotes on each side is sanitized to its inside
C26_Witness ==
    /\ call.fn = "sanitize"
    /\ LeadingQuotes(Trim(call.raw)) = 2
    /\ TrailingQuotes(Trim(call.raw)) = 2
    /\ call.result = <<"a">>

====
